---- MODULE Spec2Model ----
(***************************************************************************)
(* The two GPU resource wrappers of VkTexturedCube3D, BufferGPU and        *)
(* TextureGPU, as a state machine over the Vulkan calls they make.  The    *)
(* device is the set of handles that are currently valid plus the trace of *)
(* the device calls made by the operation invoked last; a command buffer   *)
(* is the sequence of commands recorded into it.                           *)
(***************************************************************************)
EXTENDS Integers, Sequences, FiniteSets, TLC

VARIABLES
    bufferGPU,          \* the BufferGPU object: lifecycle and its member fields
    textureGPU,         \* the TextureGPU object: lifecycle and its member fields
    live,               \* device: the handles that are valid (created, not released)
    calls,              \* device: the calls the operation invoked last made, in order
    cmds,               \* per command buffer, the commands recorded so far
    submitted,          \* the command buffers the caller has submitted for execution
    aborted,            \* the process was terminated by a fatal error
    call                \* the operation invoked last, with its arguments

vars == <<bufferGPU, textureGPU, live, calls, cmds, submitted,
          aborted, call>>

----------------------------------------------------------------------------
(* Bounds of the model *)

\* memory types the physical device advertises (memoryTypeCount)
NumMemTypes == 2
\* widths and heights passed to TextureGPU::Store are 1..MaxDim
MaxDim == 2
\* buffer sizes are 1..MaxSize; BufferGPU::Store is also given MaxSize + 1
MaxSize == 2
\* Store calls made on one wrapper
MaxStores == 2

----------------------------------------------------------------------------
(* Values *)

VK_NULL_HANDLE == "VK_NULL_HANDLE"
\* what a handle member holds when the call that should have set it failed
\* or was never made: whatever bit pattern it is, it names no valid handle
UNINITIALIZED == "UNINITIALIZED"
NoHandles == {VK_NULL_HANDLE, UNINITIALIZED}

Devices == {"device"}
CmdBufs == {"cmdA", "cmdB"}
StagingBuffers == {"cpuBuffer"}
Formats == {"R8G8B8A8_UNORM", "D16_UNORM"}
Aspects == {"COLOR", "DEPTH"}
Dims == 1..MaxDim
BufferSizes == 1..MaxSize
StoreSizes == 1..(MaxSize + 1)

MemTypeIndices == 0..(NumMemTypes - 1)
PropertyFlagSets == {{"HOST_VISIBLE"}, {"DEVICE_LOCAL"}}
MemoryProperties == [MemTypeIndices -> PropertyFlagSets]
TypeBitSets == SUBSET MemTypeIndices \ {{}}


----------------------------------------------------------------------------
(* Helper::memory_type_from_properties.  Helper.cpp is not among the       *)
(* sources; the buffer and image wrappers describe it as the search for a  *)
(* memory type whose bit is set in typeBits and whose property flags       *)
(* include requirements_mask, fatal when there is none.  The operator is   *)
(* the set of indices the search may return; the empty set is the fatal    *)
(* outcome.                                                                *)

memory_type_from_properties(props, typeBits, requirements_mask) ==
    {i \in DOMAIN props : i \in typeBits /\ requirements_mask \subseteq props[i]}

\* mutant: the flags the CPU-side buffer asks for
RequiredMemoryFlags_HostVisible == {"HOST_VISIBLE"}

\* the flags both constructors ask for: VK_MEMORY_PROPERTY_DEVICE_LOCAL_BIT
RequiredMemoryFlags == {"DEVICE_LOCAL"}

----------------------------------------------------------------------------
(* State after start-up: no wrapper constructed, nothing recorded; the      *)
(* caller's staging buffer exists                                          *)

Init ==
    /\ bufferGPU = [state |-> "unconstructed", device |-> VK_NULL_HANDLE,
                    buffer |-> VK_NULL_HANDLE, memory |-> VK_NULL_HANDLE]
    /\ textureGPU = [state |-> "unconstructed", device |-> VK_NULL_HANDLE,
                     image |-> VK_NULL_HANDLE, memory |-> VK_NULL_HANDLE,
                     imageView |-> VK_NULL_HANDLE, viewCreateInfo |-> <<>>]
    /\ live = StagingBuffers
    /\ calls = <<>>
    /\ cmds = [c \in CmdBufs |-> <<>>]
    /\ submitted = {}
    /\ aborted = FALSE
    /\ call = [op |-> "none"]

\* the handles among hs that a device call made valid
Valid(hs) == hs \ NoHandles

\* the commands named op recorded so far, over all command buffers
RECURSIVE CountOp(_, _)
CountOp(S, op) ==
    IF S = {} THEN 0
    ELSE LET c == CHOOSE x \in S : TRUE
         IN Len(SelectSeq(cmds[c], LAMBDA k : k.op = op)) + CountOp(S \ {c}, op)
BufferStores == CountOp(CmdBufs, "vkCmdCopyBuffer")
TextureStores == CountOp(CmdBufs, "vkCmdCopyBufferToImage")

----------------------------------------------------------------------------
(* BufferGPU *)

\* BufferGPU::BufferGPU(d, info).  createOK and allocOK
\* are the device's answers to vkCreateBuffer and vkAllocateMemory (the
\* VkResults are not looked at); typeBits is mem_reqs.memoryTypeBits as the
\* device reports it.
BufferGPU_ctor(d, memory_properties, info, typeBits, createOK, allocOK) ==
    /\ ~aborted
    /\ bufferGPU.state = "unconstructed"
    /\ call' = [op |-> "BufferGPU::BufferGPU",
                memory_properties |-> memory_properties, info |-> info]
    /\ LET buffer == IF createOK THEN "buffer" ELSE UNINITIALIZED
           mem_reqs == [size |-> info.size, memoryTypeBits |-> typeBits]
           found == memory_type_from_properties(memory_properties,
                        mem_reqs.memoryTypeBits, RequiredMemoryFlags)
           head == << [op |-> "vkCreateBuffer", size |-> info.size, out |-> buffer],
                      [op |-> "vkGetBufferMemoryRequirements", buffer |-> buffer,
                       memoryTypeBits |-> mem_reqs.memoryTypeBits] >>
       IN IF found = {}
          THEN /\ aborted' = TRUE
               /\ bufferGPU' = [state |-> "aborted", device |-> d,
                                buffer |-> buffer, memory |-> UNINITIALIZED]
               /\ live' = live \cup Valid({buffer})
               /\ calls' = head
          ELSE \E memoryTypeIndex \in found :
               LET memory == IF allocOK THEN "bufferMemory" ELSE UNINITIALIZED
               IN /\ aborted' = aborted
                  /\ bufferGPU' = [state |-> "constructed", device |-> d,
                                   buffer |-> buffer, memory |-> memory]
                  /\ live' = live \cup Valid({buffer, memory})
                  /\ calls' = head \o
                       << [op |-> "vkAllocateMemory",
                           allocationSize |-> mem_reqs.size,
                           memoryTypeIndex |-> memoryTypeIndex, out |-> memory],
                          [op |-> "vkBindBufferMemory", buffer |-> buffer,
                           memory |-> memory, memoryOffset |-> 0] >>
    /\ UNCHANGED <<textureGPU, cmds, submitted>>

\* BufferGPU::~BufferGPU(): vkDestroyBuffer, then vkFreeMemory
BufferGPU_dtorCalls(b) ==
    << [op |-> "vkDestroyBuffer", handle |-> b.buffer],
       [op |-> "vkFreeMemory", handle |-> b.memory] >>

BufferGPU_dtor ==
    /\ ~aborted
    /\ bufferGPU.state = "constructed"
    /\ call' = [op |-> "BufferGPU::~BufferGPU"]
    /\ bufferGPU' = [bufferGPU EXCEPT !.state = "destroyed"]
    /\ live' = live \ {bufferGPU.buffer, bufferGPU.memory}
    /\ calls' = BufferGPU_dtorCalls(bufferGPU)
    /\ UNCHANGED <<textureGPU, cmds, submitted, aborted>>

\* mutant: the size is also taken as the destination offset
BufferCopyRegion_DstOffset(size) == [srcOffset |-> 0, dstOffset |-> size, size |-> size]

\* VkBufferCopy copyRegion = {}; copyRegion.size = size;
BufferCopyRegion(size) == [srcOffset |-> 0, dstOffset |-> 0, size |-> size]

\* the commands BufferGPU::Store records
BufferGPU_StoreCommands(b, cpuBuffer, size) ==
    << [op |-> "vkCmdCopyBuffer", srcBuffer |-> cpuBuffer, dstBuffer |-> b.buffer,
        regions |-> <<BufferCopyRegion(size)>>] >>

\* BufferGPU::Store(cmd, cpuBuffer, size)
BufferGPU_Store(cmd, cpuBuffer, size) ==
    /\ ~aborted
    /\ bufferGPU.state = "constructed"
    /\ cmd \notin submitted
    /\ call' = [op |-> "BufferGPU::Store", cmd |-> cmd, cpuBuffer |-> cpuBuffer,
                size |-> size]
    /\ cmds' = [cmds EXCEPT ![cmd] = @ \o BufferGPU_StoreCommands(bufferGPU, cpuBuffer, size)]
    /\ calls' = <<>>
    /\ UNCHANGED <<bufferGPU, textureGPU, live, submitted, aborted>>

----------------------------------------------------------------------------
(* TextureGPU *)

\* mutant: levelCount is left at the 0 of "viewInfo = {}"
ViewInfo_NoLevelCount(image_create_info, aspect, image) ==
    [viewType |-> "VK_IMAGE_VIEW_TYPE_2D",
     format |-> image_create_info.format,
     components |-> [r |-> "R", g |-> "G", b |-> "B", a |-> "A"],
     subresourceRange |-> [aspectMask |-> aspect,
                           baseMipLevel |-> 0, levelCount |-> 0,
                           baseArrayLayer |-> 0, layerCount |-> 1],
     image |-> image]

\* VkImageViewCreateInfo viewInfo as the constructor fills it in
ViewInfo(image_create_info, aspect, image) ==
    [viewType |-> "VK_IMAGE_VIEW_TYPE_2D",
     format |-> image_create_info.format,
     components |-> [r |-> "R", g |-> "G", b |-> "B", a |-> "A"],
     subresourceRange |-> [aspectMask |-> aspect,
                           baseMipLevel |-> 0, levelCount |-> 1,
                           baseArrayLayer |-> 0, layerCount |-> 1],
     image |-> image]

\* TextureGPU::TextureGPU(d, image_create_info, aspect).
\* createOK, allocOK and viewOK are the device's answers to vkCreateImage,
\* vkAllocateMemory and vkCreateImageView.
TextureGPU_ctor(d, memory_properties, image_create_info, aspect, typeBits, createOK, allocOK, viewOK) ==
    /\ ~aborted
    /\ textureGPU.state = "unconstructed"
    /\ call' = [op |-> "TextureGPU::TextureGPU",
                memory_properties |-> memory_properties,
                info |-> image_create_info, aspect |-> aspect]
    /\ LET image == IF createOK THEN "image" ELSE UNINITIALIZED
           mem_reqs == [size |-> image_create_info.width * image_create_info.height,
                        memoryTypeBits |-> typeBits]
           found == memory_type_from_properties(memory_properties,
                        mem_reqs.memoryTypeBits, RequiredMemoryFlags)
           head == << [op |-> "vkCreateImage", out |-> image],
                      [op |-> "vkGetImageMemoryRequirements", image |-> image,
                       memoryTypeBits |-> mem_reqs.memoryTypeBits] >>
       IN IF found = {}
          THEN /\ aborted' = TRUE
               /\ textureGPU' = [state |-> "aborted", device |-> d, image |-> image,
                                 memory |-> UNINITIALIZED, imageView |-> UNINITIALIZED,
                                 viewCreateInfo |-> <<>>]
               /\ live' = live \cup Valid({image})
               /\ calls' = head
          ELSE \E memoryTypeIndex \in found :
               LET memory == IF allocOK THEN "imageMemory" ELSE UNINITIALIZED
                   imageView == IF viewOK THEN "imageView" ELSE UNINITIALIZED
                   viewInfo == ViewInfo(image_create_info, aspect, image)
               IN /\ aborted' = aborted
                  /\ textureGPU' = [state |-> "constructed", device |-> d,
                                    image |-> image, memory |-> memory,
                                    imageView |-> imageView,
                                    viewCreateInfo |-> viewInfo]
                  /\ live' = live \cup Valid({image, memory, imageView})
                  /\ calls' = head \o
                       << [op |-> "vkAllocateMemory",
                           allocationSize |-> mem_reqs.size,
                           memoryTypeIndex |-> memoryTypeIndex, out |-> memory],
                          [op |-> "vkBindImageMemory", image |-> image,
                           memory |-> memory, memoryOffset |-> 0],
                          [op |-> "vkCreateImageView", image |-> viewInfo.image,
                           out |-> imageView] >>
    /\ UNCHANGED <<bufferGPU, cmds, submitted>>

\* mutant: the memory is freed last
TextureGPU_dtorCalls_MemoryLast(t) ==
    << [op |-> "vkDestroyImage", handle |-> t.image],
       [op |-> "vkDestroyImageView", handle |-> t.imageView],
       [op |-> "vkFreeMemory", handle |-> t.memory] >>

\* TextureGPU::~TextureGPU(): vkFreeMemory, vkDestroyImage, vkDestroyImageView
TextureGPU_dtorCalls(t) ==
    << [op |-> "vkFreeMemory", handle |-> t.memory],
       [op |-> "vkDestroyImage", handle |-> t.image],
       [op |-> "vkDestroyImageView", handle |-> t.imageView] >>

TextureGPU_dtor ==
    /\ ~aborted
    /\ textureGPU.state = "constructed"
    /\ call' = [op |-> "TextureGPU::~TextureGPU"]
    /\ textureGPU' = [textureGPU EXCEPT !.state = "destroyed"]
    /\ live' = live \ {textureGPU.memory, textureGPU.image, textureGPU.imageView}
    /\ calls' = TextureGPU_dtorCalls(textureGPU)
    /\ UNCHANGED <<bufferGPU, cmds, submitted, aborted>>

\* mutant: the first barrier starts from UNDEFINED
PreBarrier_FromUndefined(t) ==
    [op |-> "vkCmdPipelineBarrier",
     srcStageMask |-> "TOP_OF_PIPE", dstStageMask |-> "TRANSFER",
     srcAccessMask |-> {}, dstAccessMask |-> {"TRANSFER_WRITE"},
     oldLayout |-> "UNDEFINED", newLayout |-> "TRANSFER_DST_OPTIMAL",
     image |-> t.viewCreateInfo.image,
     subresourceRange |-> t.viewCreateInfo.subresourceRange]

\* the first vkCmdPipelineBarrier of Store: PREINITIALIZED -> TRANSFER_DST_OPTIMAL
PreBarrier(t) ==
    [op |-> "vkCmdPipelineBarrier",
     srcStageMask |-> "TOP_OF_PIPE", dstStageMask |-> "TRANSFER",
     srcAccessMask |-> {}, dstAccessMask |-> {"TRANSFER_WRITE"},
     oldLayout |-> "PREINITIALIZED", newLayout |-> "TRANSFER_DST_OPTIMAL",
     image |-> t.viewCreateInfo.image,
     subresourceRange |-> t.viewCreateInfo.subresourceRange]

\* mutant: width and height are swapped in the row length and image height
CopyRegion_Swapped(t, width, height) ==
    [bufferOffset |-> 0,
     bufferRowLength |-> height,
     bufferImageHeight |-> width,
     imageSubresource |-> [aspectMask |-> t.viewCreateInfo.subresourceRange.aspectMask,
                           mipLevel |-> 0, baseArrayLayer |-> 0, layerCount |-> 1],
     imageOffset |-> <<0, 0, 0>>,
     imageExtent |-> <<width, height, 1>>]

\* VkBufferImageCopy copy_region
CopyRegion(t, width, height) ==
    [bufferOffset |-> 0,
     bufferRowLength |-> width,
     bufferImageHeight |-> height,
     imageSubresource |-> [aspectMask |-> t.viewCreateInfo.subresourceRange.aspectMask,
                           mipLevel |-> 0, baseArrayLayer |-> 0, layerCount |-> 1],
     imageOffset |-> <<0, 0, 0>>,
     imageExtent |-> <<width, height, 1>>]

\* vkCmdCopyBufferToImage
CopyToImage(t, cpuBuffer, width, height) ==
    [op |-> "vkCmdCopyBufferToImage", srcBuffer |-> cpuBuffer, dstImage |-> t.image,
     dstImageLayout |-> "TRANSFER_DST_OPTIMAL",
     regions |-> <<CopyRegion(t, width, height)>>]

\* the second vkCmdPipelineBarrier: TRANSFER_DST_OPTIMAL -> SHADER_READ_ONLY_OPTIMAL
PostBarrier(t) ==
    [op |-> "vkCmdPipelineBarrier",
     srcStageMask |-> "TRANSFER", dstStageMask |-> "FRAGMENT_SHADER",
     srcAccessMask |-> {"TRANSFER_WRITE"}, dstAccessMask |-> {},
     oldLayout |-> "TRANSFER_DST_OPTIMAL", newLayout |-> "SHADER_READ_ONLY_OPTIMAL",
     image |-> t.viewCreateInfo.image,
     subresourceRange |-> t.viewCreateInfo.subresourceRange]

\* mutant: the copy is recorded before the first barrier
TextureGPU_StoreCommands_CopyFirst(t, cpuBuffer, width, height) ==
    << CopyToImage(t, cpuBuffer, width, height), PreBarrier(t), PostBarrier(t) >>

\* the commands TextureGPU::Store records, in the order it records them
TextureGPU_StoreCommands(t, cpuBuffer, width, height) ==
    << PreBarrier(t), CopyToImage(t, cpuBuffer, width, height), PostBarrier(t) >>

\* what Store leaves in the object: it only reads viewCreateInfo and image
TextureGPU_AfterStore(t) == t

\* TextureGPU::Store(cmd, cpuBuffer, width, height)
TextureGPU_Store(cmd, cpuBuffer, width, height) ==
    /\ ~aborted
    /\ textureGPU.state = "constructed"
    /\ cmd \notin submitted
    /\ call' = [op |-> "TextureGPU::Store", cmd |-> cmd, cpuBuffer |-> cpuBuffer,
                width |-> width, height |-> height]
    /\ cmds' = [cmds EXCEPT ![cmd] =
                   @ \o TextureGPU_StoreCommands(textureGPU, cpuBuffer, width, height)]
    /\ textureGPU' = TextureGPU_AfterStore(textureGPU)
    /\ calls' = <<>>
    /\ UNCHANGED <<bufferGPU, live, submitted, aborted>>

----------------------------------------------------------------------------
(* The caller *)

\* prepare() ends the command buffer and submits it; nothing is recorded
\* into it afterwards
Submit(cmd) ==
    /\ ~aborted
    /\ cmd \notin submitted
    /\ cmds[cmd] # <<>>
    /\ call' = [op |-> "submit", cmd |-> cmd]
    /\ submitted' = submitted \cup {cmd}
    /\ calls' = <<[op |-> "vkQueueSubmit", cmd |-> cmd]>>
    /\ UNCHANGED <<bufferGPU, textureGPU, live, cmds, aborted>>

BufferInfos == [size : BufferSizes]
ImageInfos == [format : Formats, width : Dims, height : Dims]

BufferCtor ==
    /\ bufferGPU.state = "unconstructed"
    /\ \E d \in Devices, memory_properties \in MemoryProperties, info \in BufferInfos,
       typeBits \in TypeBitSets, createOK \in BOOLEAN, allocOK \in BOOLEAN :
       BufferGPU_ctor(d, memory_properties, info, typeBits, createOK, allocOK)

BufferStore(limit) ==
    /\ BufferStores + TextureStores < limit
    /\ \E cmd \in CmdBufs, cpuBuffer \in StagingBuffers, size \in StoreSizes :
          BufferGPU_Store(cmd, cpuBuffer, size)

TextureCtor(infos) ==
    /\ textureGPU.state = "unconstructed"
    /\ \E d \in Devices, memory_properties \in MemoryProperties, info \in infos,
       aspect \in Aspects, typeBits \in TypeBitSets, createOK \in BOOLEAN,
       allocOK \in BOOLEAN, viewOK \in BOOLEAN :
       TextureGPU_ctor(d, memory_properties, info, aspect, typeBits,
                       createOK, allocOK, viewOK)

TextureStore(limit) ==
    /\ BufferStores + TextureStores < limit
    /\ \E cmd \in CmdBufs, cpuBuffer \in StagingBuffers, width \in Dims, height \in Dims :
          TextureGPU_Store(cmd, cpuBuffer, width, height)

SubmitAny == \E cmd \in CmdBufs : Submit(cmd)

\* the buffer wrapper alone
NextBuffer ==
    \/ BufferCtor
    \/ BufferGPU_dtor
    \/ BufferStore(MaxStores)
    \/ SubmitAny

\* the image wrapper alone
NextTexture ==
    \/ TextureCtor(ImageInfos)
    \/ TextureGPU_dtor
    \/ TextureStore(MaxStores)
    \/ SubmitAny

\* construction and destruction of both wrappers on the same device; the
\* images are 1 x 1 (no constructor reads the extent)
UnitImageInfos == {info \in ImageInfos : info.width = 1 /\ info.height = 1}

NextLifecycle ==
    \/ BufferCtor
    \/ BufferGPU_dtor
    \/ TextureCtor(UnitImageInfos)
    \/ TextureGPU_dtor

SpecBuffer == Init /\ [][NextBuffer]_vars
SpecTexture == Init /\ [][NextTexture]_vars
SpecLifecycle == Init /\ [][NextLifecycle]_vars

----------------------------------------------------------------------------
(* Properties *)

\* the commands a step appended to command buffer c
Appended(c) == SubSeq(cmds'[c], Len(cmds[c]) + 1, Len(cmds'[c]))

\* the step is a call of TextureGPU::Store that recorded something
TextureStoreStep == call'.op = "TextureGPU::Store" /\ cmds' # cmds

\* the step is a call of BufferGPU::Store that recorded something
BufferStoreStep == call'.op = "BufferGPU::Store" /\ cmds' # cmds

IsBarrier(k) == k.op = "vkCmdPipelineBarrier"
IsImageCopy(k) == k.op = "vkCmdCopyBufferToImage"
\* the barrier that makes the image writable by the transfer
IsPreTransition(k) == IsBarrier(k) /\ k.newLayout = "TRANSFER_DST_OPTIMAL"
\* the barrier that takes the image out of the transfer layout
IsPostTransition(k) == IsBarrier(k) /\ k.oldLayout = "TRANSFER_DST_OPTIMAL"

\* C1: every TextureGPU::Store(cmd, cpuBuffer, width, height) records its
\* pre-transition barrier, its copy and its post-transition barrier into
\* cmd and into no other command buffer, the pre-transition barrier strictly
\* before the copy and the copy strictly before the post-transition barrier.
C1_BarrierCopyBarrierOrder ==
    [][TextureStoreStep =>
         /\ \A c \in CmdBufs \ {call'.cmd} : cmds'[c] = cmds[c]
         /\ LET new == Appended(call'.cmd)
            IN /\ \E i, j, l \in DOMAIN new :
                     /\ IsPreTransition(new[i])
                     /\ IsImageCopy(new[j])
                     /\ IsPostTransition(new[l])
               /\ \A i, j \in DOMAIN new :
                     /\ IsPreTransition(new[i]) /\ IsImageCopy(new[j]) => i < j
                     /\ IsImageCopy(new[i]) /\ IsPostTransition(new[j]) => i < j
      ]_vars

\* C1 witness: a Store with width # height has recorded into its command buffer
C1_Witness ==
    /\ call.op = "TextureGPU::Store"
    /\ call.width # call.height
    /\ Len(cmds[call.cmd]) >= 3

\* C2: a Store on a wrapper that has recorded nothing yet appends exactly
\* three commands: a barrier none -> transfer-write, PREINITIALIZED ->
\* TRANSFER_DST_OPTIMAL, top-of-pipe -> transfer; one copy into the image in
\* layout TRANSFER_DST_OPTIMAL; a barrier transfer-write -> none,
\* TRANSFER_DST_OPTIMAL -> SHADER_READ_ONLY_OPTIMAL, transfer -> fragment
\* shader.  Both barriers name the wrapper's image and the cached
\* subresource range.
C2_FirstStoreRecordsExactlyTheTriple ==
    [][TextureStoreStep /\ TextureStores = 0 =>
         /\ \A c \in CmdBufs \ {call'.cmd} : cmds'[c] = cmds[c]
         /\ LET new == Appended(call'.cmd)
                range == textureGPU.viewCreateInfo.subresourceRange
            IN /\ Len(new) = 3
               /\ IsBarrier(new[1])
               /\ new[1].srcAccessMask = {}
               /\ new[1].dstAccessMask = {"TRANSFER_WRITE"}
               /\ new[1].oldLayout = "PREINITIALIZED"
               /\ new[1].newLayout = "TRANSFER_DST_OPTIMAL"
               /\ new[1].srcStageMask = "TOP_OF_PIPE"
               /\ new[1].dstStageMask = "TRANSFER"
               /\ new[1].image = textureGPU.image
               /\ new[1].subresourceRange = range
               /\ IsImageCopy(new[2])
               /\ new[2].dstImage = textureGPU.image
               /\ new[2].dstImageLayout = "TRANSFER_DST_OPTIMAL"
               /\ Len(new[2].regions) = 1
               /\ IsBarrier(new[3])
               /\ new[3].srcAccessMask = {"TRANSFER_WRITE"}
               /\ new[3].dstAccessMask = {}
               /\ new[3].oldLayout = "TRANSFER_DST_OPTIMAL"
               /\ new[3].newLayout = "SHADER_READ_ONLY_OPTIMAL"
               /\ new[3].srcStageMask = "TRANSFER"
               /\ new[3].dstStageMask = "FRAGMENT_SHADER"
               /\ new[3].image = textureGPU.image
               /\ new[3].subresourceRange = range
      ]_vars

\* C2 witness: exactly one Store has been recorded, by a wrapper whose
\* image was created
C2_Witness ==
    /\ call.op = "TextureGPU::Store"
    /\ TextureStores = 1
    /\ textureGPU.image \in live

\* some command buffer holds a barrier that left the wrapper's image in
\* SHADER_READ_ONLY_OPTIMAL
ReachedReadOnly ==
    \E c \in CmdBufs : \E i \in DOMAIN cmds[c] :
        /\ IsBarrier(cmds[c][i])
        /\ cmds[c][i].image = textureGPU.image
        /\ cmds[c][i].newLayout = "SHADER_READ_ONLY_OPTIMAL"

\* C3: once a barrier has taken the image to SHADER_READ_ONLY_OPTIMAL
\* (ReadOnly), no operation records a barrier that takes it back to
\* TRANSFER_DST_OPTIMAL (Writable).
C3_NoWayBackToWritable ==
    [][ReachedReadOnly =>
         \A c \in CmdBufs : \A i \in DOMAIN Appended(c) :
            ~ /\ IsBarrier(Appended(c)[i])
              /\ Appended(c)[i].image = textureGPU.image
              /\ Appended(c)[i].newLayout = "TRANSFER_DST_OPTIMAL"
      ]_vars

\* the barriers recorded so far that claim the image is still PREINITIALIZED
RECURSIVE PreinitializedClaims(_)
PreinitializedClaims(S) ==
    IF S = {} THEN 0
    ELSE LET c == CHOOSE x \in S : TRUE
         IN Len(SelectSeq(cmds[c], LAMBDA k :
                    IsBarrier(k) /\ k.oldLayout = "PREINITIALIZED"
                                 /\ k.image = textureGPU.image))
            + PreinitializedClaims(S \ {c})

\* C4: a second Store on the same wrapper does not silently succeed: a
\* second barrier claiming oldLayout PREINITIALIZED for the image is never
\* recorded without a failure outcome.
C4_SecondStoreFails ==
    ~ (PreinitializedClaims(CmdBufs) >= 2 /\ ~aborted)

Ctors == {"BufferGPU::BufferGPU", "TextureGPU::TextureGPU"}
Dtors == {"BufferGPU::~BufferGPU", "TextureGPU::~TextureGPU"}

\* the positions in the trace of the last operation of the calls named in ops
CallsOf(ops) == {i \in DOMAIN calls : calls[i].op \in ops}

\* the memory types the constructor invoked last could rightly use: those
\* that are device-local and allowed by the reported requirement
SuitableTypes ==
    {i \in DOMAIN call.memory_properties :
        /\ "DEVICE_LOCAL" \in call.memory_properties[i]
        /\ \E k \in CallsOf({"vkGetBufferMemoryRequirements",
                             "vkGetImageMemoryRequirements"}) :
              i \in calls[k].memoryTypeBits}

C6_HandlesShareOneLifecycle ==
    /\ bufferGPU.buffer \in live <=> bufferGPU.memory \in live
    /\ textureGPU.image \in live <=> textureGPU.memory \in live
    /\ textureGPU.image \in live <=> textureGPU.imageView \in live

ReleaseCalls == {"vkDestroyBuffer", "vkDestroyImage", "vkDestroyImageView"}

\* C7 as claimed: either destructor makes every call that releases a buffer,
\* image or view handle before the call that frees the memory.
C7_HandlesReleasedBeforeMemory ==
    call.op \in Dtors =>
        \A i \in CallsOf(ReleaseCalls), j \in CallsOf({"vkFreeMemory"}) : i < j

\* C7 as amended: ~BufferGPU releases the buffer handle and then frees the
\* memory; ~TextureGPU frees the memory first, then releases the image
\* handle, then the view handle.
C7_DestructionOrder ==
    /\ call.op = "BufferGPU::~BufferGPU" =>
          /\ Len(calls) = 2
          /\ calls[1] = [op |-> "vkDestroyBuffer", handle |-> bufferGPU.buffer]
          /\ calls[2] = [op |-> "vkFreeMemory", handle |-> bufferGPU.memory]
    /\ call.op = "TextureGPU::~TextureGPU" =>
          /\ Len(calls) = 3
          /\ calls[1] = [op |-> "vkFreeMemory", handle |-> textureGPU.memory]
          /\ calls[2] = [op |-> "vkDestroyImage", handle |-> textureGPU.image]
          /\ calls[3] = [op |-> "vkDestroyImageView", handle |-> textureGPU.imageView]

\* C7 witness: a fully constructed TextureGPU has just been destroyed
C7_Witness ==
    /\ call.op = "TextureGPU::~TextureGPU"
    /\ \A i \in DOMAIN calls : calls[i].handle \notin NoHandles
    /\ bufferGPU.state = "destroyed"

\* C8: BufferGPU::Store(cmd, cpuBuffer, size) appends to cmd one
\* vkCmdCopyBuffer from cpuBuffer to the wrapper's buffer with one region
\* (srcOffset 0, dstOffset 0, size), for every size; it changes no other
\* command buffer, not the wrapper, not the valid handles (the staging buffer
\* among them), makes no device call and submits nothing.
C8_BufferStoreOnlyRecordsOneCopy ==
    [][BufferStoreStep =>
         /\ cmds' = [cmds EXCEPT ![call'.cmd] = Append(@,
               [op |-> "vkCmdCopyBuffer",
                srcBuffer |-> call'.cpuBuffer,
                dstBuffer |-> bufferGPU.buffer,
                regions |-> << [srcOffset |-> 0, dstOffset |-> 0,
                                size |-> call'.size] >>])]
         /\ bufferGPU' = bufferGPU
         /\ live' = live
         /\ call'.cpuBuffer \in live'
         /\ calls' = <<>>
         /\ submitted' = submitted
         /\ aborted' = aborted
      ]_vars

\* C8 witness: a Store of more bytes than any buffer was created with
C8_Witness ==
    /\ call.op = "BufferGPU::Store"
    /\ call.size > MaxSize
    /\ bufferGPU.buffer \in live
    /\ Len(cmds[call.cmd]) >= 2

\* C9: the constructor caches a view descriptor with baseMipLevel 0,
\* levelCount 1, baseArrayLayer 0, layerCount 1, the aspect mask it was
\* given and the format of the image descriptor; no later operation changes
\* the cached descriptor.
C9_CachedViewDescriptor ==
    [][/\ call'.op = "TextureGPU::TextureGPU" /\ textureGPU'.state = "constructed" =>
            /\ textureGPU'.viewCreateInfo.subresourceRange =
                  [aspectMask |-> call'.aspect, baseMipLevel |-> 0,
                   levelCount |-> 1, baseArrayLayer |-> 0, layerCount |-> 1]
            /\ textureGPU'.viewCreateInfo.format = call'.info.format
       /\ textureGPU.state = "constructed" =>
            textureGPU'.viewCreateInfo = textureGPU.viewCreateInfo
      ]_vars

\* C9 witness: two Stores after the construction of a depth view over a
\* colour-format image
C9_Witness ==
    /\ TextureStores = 2
    /\ textureGPU.viewCreateInfo.subresourceRange.aspectMask = "DEPTH"
    /\ textureGPU.viewCreateInfo.format = "R8G8B8A8_UNORM"

\* where vkCmdCopyBufferToImage reads texel (x, y, z) of a region from, in
\* texels from the start of the source buffer: a row length or image height
\* of 0 stands for the extent's (tightly packed)
TexelAddress(region, x, y, z) ==
    LET rowLength == IF region.bufferRowLength = 0 THEN region.imageExtent[1]
                     ELSE region.bufferRowLength
        imageHeight == IF region.bufferImageHeight = 0 THEN region.imageExtent[2]
                       ELSE region.bufferImageHeight
    IN region.bufferOffset + (z * imageHeight + y) * rowLength + x

TightlyPacked(region) ==
    [region EXCEPT !.bufferRowLength = 0, !.bufferImageHeight = 0]

\* the copy commands recorded by the Store invoked last
LastStoreCopies ==
    LET s == cmds[call.cmd]
    IN {i \in DOMAIN s : i > Len(s) - 3 /\ IsImageCopy(s[i])}

\* C10: the copy recorded by Store(cmd, cpuBuffer, width, height) has one
\* region with image extent (width, height, 1), image offset (0, 0, 0),
\* buffer offset 0, the cached aspect mask, mip level 0, base array layer 0
\* and layer count 1, and reads every texel of the extent from the place a
\* tightly packed source (row length 0, image height 0) has it.
C10_CopyRegionIsTightlyPacked ==
    call.op = "TextureGPU::Store" =>
        /\ LastStoreCopies # {}
        /\ \A i \in LastStoreCopies :
              LET copy == cmds[call.cmd][i]
                  region == copy.regions[1]
              IN /\ Len(copy.regions) = 1
                 /\ copy.srcBuffer = call.cpuBuffer
                 /\ region.imageExtent = <<call.width, call.height, 1>>
                 /\ region.imageOffset = <<0, 0, 0>>
                 /\ region.bufferOffset = 0
                 /\ region.imageSubresource =
                       [aspectMask |-> textureGPU.viewCreateInfo.subresourceRange.aspectMask,
                        mipLevel |-> 0, baseArrayLayer |-> 0, layerCount |-> 1]
                 /\ \A x \in 0..(call.width - 1), y \in 0..(call.height - 1) :
                       TexelAddress(region, x, y, 0) =
                          TexelAddress(TightlyPacked(region), x, y, 0)

\* C10 witness: a Store of a region that is wider than high
C10_Witness ==
    /\ call.op = "TextureGPU::Store"
    /\ call.width > call.height
    /\ LastStoreCopies # {}

====
